---- MODULE Spec2Model ----
(***************************************************************************)
(* Model of database_access.py: the class Database, a data-access layer    *)
(* over one SQLite table                                                   *)
(*                                                                         *)
(*   activity(GuildID, UserID, timestamp, whitelisted,                     *)
(*            PRIMARY KEY (GuildID, UserID))                               *)
(*                                                                         *)
(* Every method opens its own connection, runs its statements and commits  *)
(* or closes.  The methods are coroutines: several callers may be inside   *)
(* the class at once, and a caller can be suspended at every await.  The   *)
(* model keeps one step per statement that reads or writes the table: the  *)
(* opening of the connection is part of the step of the first statement,   *)
(* the commit (or close) is part of the step of the last statement.  An    *)
(* uncommitted change of one connection is invisible to every other        *)
(* connection and excludes other writers, so that the statement and its    *)
(* commit act on the committed table as one step.  The only method with    *)
(* two statements is make_or_update_entry (SELECT, then INSERT OR REPLACE):*)
(* it is two steps, and other callers may run between them.                *)
(*                                                                         *)
(* A second, connection-level specification (SpecConn) keeps the           *)
(* connection of every call in the state: the statements, the commit or    *)
(* close and the storage errors a statement or a commit can raise are      *)
(* steps of their own there.                                               *)
(***************************************************************************)
EXTENDS Integers, Sequences, FiniteSets

VARIABLES
    db,      \* the committed rows of table activity: a set of Row records
    pc,      \* pc[p]: where caller p is: "idle", or "insert" (inside
             \* make_or_update_entry, SELECT done, INSERT OR REPLACE pending)
    args,    \* args[p]: serverid, userid, timestamp of p's pending call
    white,   \* white[p]: the local variable white of p's pending call
    ret,     \* the last value returned by a query method
    last,    \* the writing method that returned last and its cursor.rowcount,
             \* recorded when calls run one at a time
    conn,    \* conn[p]: the connection of caller p's call in the
             \* connection-level specification: method, parameters, stage,
             \* uncommitted table, cursor.rowcount, write lock held
    created, \* whether table activity exists in the database file
    leaked,  \* the number of connections that were opened and never closed
    stuck,   \* whether a connection that was never closed holds the write lock
    ended    \* how the call that ended last ended: "create" (create_db),
             \* "commit" (_commit_n_close), "close" (connection.close()
             \* alone) or "raise" (an exception)

connvars == <<conn, created, leaked, stuck, ended>>
vars == <<db, pc, args, white, ret, last, conn, created, leaked, stuck, ended>>

---------------------------------------------------------------------------
(* Bounds *)

NumProcs == 2       \* concurrent callers
MaxGuild == 2       \* guild ids 1..MaxGuild
MaxUser == 2        \* user ids 1..MaxUser
MaxTime == 2        \* timestamps 1..MaxTime
MaxBatch == 2       \* longest list handed to an executemany method
MaxQueryUser == 3   \* user ids of the tables the query methods are run on
MaxQueryRows == 3   \* most rows of the tables the query methods are run on

Procs == 1..NumProcs
Guilds == 1..MaxGuild
Users == 1..MaxUser
Times == 1..MaxTime

QueryUsers == 1..MaxQueryUser
QueryTimes == {50, 80, 100}
Thresholds == QueryTimes \cup {200}

---------------------------------------------------------------------------
(* The table and its statements *)

\* Python's bool bound to a BOOLEAN column: sqlite3 stores True as 1, False as 0.
Adapt(b) == IF b THEN 1 ELSE 0

Row(g, u, t, w) == [GuildID |-> g, UserID |-> u, timestamp |-> t, whitelisted |-> w]

\* PRIMARY KEY (GuildID, UserID): two rows conflict when they agree on both.
SameKey(r, s) == r.GuildID = s.GuildID /\ r.UserID = s.UserID

\* The result of running one statement (or one executemany) on table T:
\* the table after it and cursor.rowcount.
Result(T, n) == [tbl |-> T, rowcount |-> n]

\* INSERT OR REPLACE INTO activity VALUES (?, ?, ?, ?): the conflicting row, if
\* any, is deleted and the new row inserted.
InsertPlain(T, r) == Result(T \cup {r}, 1)

InsertKeepingLatest(T, r) ==
    LET old == {x \in T : SameKey(x, r)}
        kept == IF \E x \in old : x.timestamp > r.timestamp
                THEN [r EXCEPT !.timestamp = (CHOOSE x \in old : TRUE).timestamp]
                ELSE r
    IN  Result((T \ old) \cup {kept}, 1)

InsertOrReplace(T, r) == Result({x \in T : ~SameKey(x, r)} \cup {r}, 1)

\* INSERT OR IGNORE INTO activity VALUES (?, ?, ?, ?): skipped on a conflict.
InsertOverwriting(T, r) == Result({x \in T : ~SameKey(x, r)} \cup {r}, 1)

InsertOrIgnore(T, r) ==
    IF \E x \in T : SameKey(x, r) THEN Result(T, 0) ELSE Result(T \cup {r}, 1)

\* DELETE FROM activity WHERE GuildID = ? AND UserID = ?
DeleteWholeGuildOfUser(T, g, u) ==
    LET gone == {x \in T : x.GuildID = g}
    IN  Result(T \ gone, Cardinality(gone))

DeleteUserOfAnyGuild(T, g, u) ==
    LET gone == {x \in T : x.UserID = u}
    IN  Result(T \ gone, Cardinality(gone))

DeleteUser(T, g, u) ==
    LET gone == {x \in T : x.GuildID = g /\ x.UserID = u}
    IN  Result(T \ gone, Cardinality(gone))

\* DELETE FROM activity WHERE GuildID = ?
DeleteAllServers(T, g) ==
    LET gone == IF \E x \in T : x.GuildID = g THEN T ELSE {}
    IN  Result(T \ gone, Cardinality(gone))

DeleteServer(T, g) ==
    LET gone == {x \in T : x.GuildID = g}
    IN  Result(T \ gone, Cardinality(gone))

\* UPDATE activity SET whitelisted = False WHERE GuildID = ? AND UserID = ?
\* rowcount counts the rows the WHERE clause matches, changed or not.
UpdateWhitelistOfGuild(T, g, u) ==
    LET hit == {x \in T : x.GuildID = g}
    IN  Result((T \ hit) \cup {[x EXCEPT !.whitelisted = 0] : x \in hit},
               Cardinality(hit))

UpdateWhitelist(T, g, u) ==
    LET hit == {x \in T : x.GuildID = g /\ x.UserID = u}
    IN  Result((T \ hit) \cup {[x EXCEPT !.whitelisted = 0] : x \in hit},
               Cardinality(hit))

\* cursor.fetchone() after SELECT whitelisted ... WHERE GuildID = ? AND UserID = ?:
\* the 1-tuple of the stored value, or None (here << >>) when no row matches.
None == << >>

FetchWhitelisted(T, g, u) ==
    IF \E x \in T : x.GuildID = g /\ x.UserID = u
    THEN <<(CHOOSE x \in T : x.GuildID = g /\ x.UserID = u).whitelisted>>
    ELSE None

\* Lines 68-76: white stays as passed unless it is False and the fetched row
\* equals (1,).
KeepWhiteNever(w, fetched) == w

KeepWhiteOfAnyRow(w, fetched) == IF ~w /\ fetched # None THEN TRUE ELSE w

KeepWhite(w, fetched) == IF ~w /\ fetched = <<1>> THEN TRUE ELSE w

\* cursor.executemany(sql, params): the statement runs once per element of
\* params, in order, inside one transaction; rowcount is the sum.
RECURSIVE ExecuteManyNotWhitelisted(_, _, _)
ExecuteManyNotWhitelisted(sql, T, params) ==
    IF params = << >>
    THEN Result(T, 0)
    ELSE LET e == Head(params)
             one == CASE sql = "DELETE server" -> DeleteServer(T, e[1])
                      [] sql = "DELETE user" -> DeleteUser(T, e[1], e[2])
                      [] sql = "INSERT OR IGNORE" ->
                            InsertOrIgnore(T, Row(e[1], e[2], e[3], Adapt(FALSE)))
             rest == ExecuteManyNotWhitelisted(sql, one.tbl, Tail(params))
         IN  Result(rest.tbl, one.rowcount + rest.rowcount)

RECURSIVE ExecuteMany(_, _, _)
ExecuteMany(sql, T, params) ==
    IF params = << >>
    THEN Result(T, 0)
    ELSE LET e == Head(params)
             one == CASE sql = "DELETE server" -> DeleteServer(T, e[1])
                      [] sql = "DELETE user" -> DeleteUser(T, e[1], e[2])
                      [] sql = "INSERT OR IGNORE" ->
                            InsertOrIgnore(T, Row(e[1], e[2], e[3], Adapt(e[4])))
             rest == ExecuteMany(sql, one.tbl, Tail(params))
         IN  Result(rest.tbl, one.rowcount + rest.rowcount)

\* _commit_n_close: the transaction's table becomes the committed one.
commit_n_close(res) == res.tbl

\* "if cursor.rowcount > 0: commit and close, else: close" - a connection closed
\* without commit rolls its transaction back.
CommitIfChanged(res) == IF res.rowcount > 0 THEN commit_n_close(res) ELSE db

\* The lists a caller can hand to an executemany method.
Batches(S) == UNION {[1..n -> S] : n \in 0..MaxBatch}

---------------------------------------------------------------------------
(* Initial state: the table exists and is empty, nobody is inside the class *)

NoArgs == [serverid |-> 0, userid |-> 0, timestamp |-> 0]
NoRet == [fn |-> "none", args |-> << >>, rows |-> << >>]
NoCall == [fn |-> "none", rowcount |-> -1]

\* No connection: the caller is outside the class.
Closed ==
    [fn |-> "none", params |-> << >>, white |-> FALSE, stage |-> "closed",
     txn |-> << >>, rowcount |-> -1, lock |-> FALSE]

NoConnections ==
    /\ conn = [p \in Procs |-> Closed]
    /\ leaked = 0
    /\ stuck = FALSE
    /\ ended = "none"

Init ==
    /\ db = {}
    /\ pc = [p \in Procs |-> "idle"]
    /\ args = [p \in Procs |-> NoArgs]
    /\ white = [p \in Procs |-> FALSE]
    /\ ret = NoRet
    /\ last = NoCall
    /\ NoConnections
    /\ created = TRUE

---------------------------------------------------------------------------
(* The writing methods.  p is the caller; observe says whether the call is  *)
(* recorded in last when it returns (it is when calls run one at a time).   *)

Returned(observe, fn, res) ==
    last' = IF observe THEN [fn |-> fn, rowcount |-> res.rowcount] ELSE last

\* The end of a method whose statements have run: newdb is the committed table
\* it leaves.
Finish(observe, fn, res, newdb) ==
    /\ db' = newdb
    /\ Returned(observe, fn, res)

\* make_or_update_entry(serverid, userid, timestamp, white=False), lines 66-76:
\* the SELECT and the fetch.  The INSERT is left pending.
make_or_update_entry_read(p, serverid, userid, timestamp) ==
    /\ pc[p] = "idle"
    /\ pc' = [pc EXCEPT ![p] = "insert"]
    /\ args' = [args EXCEPT ![p] =
                  [serverid |-> serverid, userid |-> userid, timestamp |-> timestamp]]
    /\ white' = [white EXCEPT ![p] =
                  KeepWhite(FALSE, FetchWhitelisted(db, serverid, userid))]
    /\ UNCHANGED <<db, ret, last, connvars>>

\* make_or_update_entry, lines 77-84: the pending INSERT OR REPLACE and the commit.
make_or_update_entry_write(p, observe) ==
    /\ pc[p] = "insert"
    /\ LET res == InsertOrReplace(db,
                    Row(args[p].serverid, args[p].userid, args[p].timestamp,
                        Adapt(white[p])))
       IN  Finish(observe, "make_or_update_entry", res, commit_n_close(res))
    /\ pc' = [pc EXCEPT ![p] = "idle"]
    /\ args' = [args EXCEPT ![p] = NoArgs]
    /\ white' = [white EXCEPT ![p] = FALSE]
    /\ UNCHANGED <<ret, connvars>>

\* make_or_update_entry(serverid, userid, timestamp, white=True): the SELECT is
\* skipped (line 68), the INSERT OR REPLACE is the only statement.
make_or_update_entry_white(p, observe, serverid, userid, timestamp) ==
    /\ pc[p] = "idle"
    /\ LET res == InsertOrReplace(db,
                 Row(serverid, userid, timestamp, Adapt(KeepWhite(TRUE, None))))
       IN  Finish(observe, "make_or_update_entry_white", res, commit_n_close(res))
    /\ UNCHANGED <<pc, args, white, ret, connvars>>

make_needed_entry(p, observe, serverid, userid, timestamp) ==
    /\ pc[p] = "idle"
    /\ LET res == InsertOrIgnore(db, Row(serverid, userid, timestamp, Adapt(FALSE)))
       IN  Finish(observe, "make_needed_entry", res, CommitIfChanged(res))
    /\ UNCHANGED <<pc, args, white, ret, connvars>>

delete_single_user(p, observe, serverid, userid) ==
    /\ pc[p] = "idle"
    /\ LET res == DeleteUser(db, serverid, userid)
       IN  Finish(observe, "delete_single_user", res, commit_n_close(res))
    /\ UNCHANGED <<pc, args, white, ret, connvars>>

delete_single_server(p, observe, serverid) ==
    /\ pc[p] = "idle"
    /\ LET res == DeleteServer(db, serverid)
       IN  Finish(observe, "delete_single_server", res, commit_n_close(res))
    /\ UNCHANGED <<pc, args, white, ret, connvars>>

remove_whitelist_status(p, observe, serverid, userid) ==
    /\ pc[p] = "idle"
    /\ LET res == UpdateWhitelist(db, serverid, userid)
       IN  Finish(observe, "remove_whitelist_status", res, CommitIfChanged(res))
    /\ UNCHANGED <<pc, args, white, ret, connvars>>

\* server_ids: a list of 1-tuples (serverid,)
delete_many_servers(p, observe, server_ids) ==
    /\ pc[p] = "idle"
    /\ LET res == ExecuteMany("DELETE server", db, server_ids)
       IN  Finish(observe, "delete_many_servers", res, CommitIfChanged(res))
    /\ UNCHANGED <<pc, args, white, ret, connvars>>

\* s_and_u_ids: a list of tuples (serverid, userid, timestamp, whitelisted)
make_needed_entries(p, observe, s_and_u_ids) ==
    /\ pc[p] = "idle"
    /\ LET res == ExecuteMany("INSERT OR IGNORE", db, s_and_u_ids)
       IN  Finish(observe, "make_needed_entries", res, CommitIfChanged(res))
    /\ UNCHANGED <<pc, args, white, ret, connvars>>

\* delete_members: a list of tuples (serverid, userid)
delete_many_members(p, observe, delete_members) ==
    /\ pc[p] = "idle"
    /\ LET res == ExecuteMany("DELETE user", db, delete_members)
       IN  Finish(observe, "delete_many_members", res, CommitIfChanged(res))
    /\ UNCHANGED <<pc, args, white, ret, connvars>>

ServerIdLists == Batches({<<g>> : g \in Guilds})
MemberLists == Batches(Guilds \X Users)
EntryLists == Batches(Guilds \X Users \X Times \X BOOLEAN)

Step(p, observe) ==
    \/ \E g \in Guilds, u \in Users, t \in Times : make_or_update_entry_read(p, g, u, t)
    \/ make_or_update_entry_write(p, observe)
    \/ \E g \in Guilds, u \in Users, t \in Times :
          make_or_update_entry_white(p, observe, g, u, t)
    \/ \E g \in Guilds, u \in Users, t \in Times : make_needed_entry(p, observe, g, u, t)
    \/ \E g \in Guilds, u \in Users : delete_single_user(p, observe, g, u)
    \/ \E g \in Guilds : delete_single_server(p, observe, g)
    \/ \E g \in Guilds, u \in Users : remove_whitelist_status(p, observe, g, u)
    \/ \E l \in ServerIdLists : delete_many_servers(p, observe, l)
    \/ \E l \in EntryLists : make_needed_entries(p, observe, l)
    \/ \E l \in MemberLists : delete_many_members(p, observe, l)

\* Callers interleave freely.
Next == \E p \in Procs : Step(p, FALSE)

Spec == Init /\ [][Next]_vars

\* Operations run one after another: a caller moves only while every other
\* caller is outside the class.
NextSeq == \E p \in Procs : (\A q \in Procs \ {p} : pc[q] = "idle") /\ Step(p, TRUE)

SpecSeq == Init /\ [][NextSeq]_vars

---------------------------------------------------------------------------
(* The query methods.  Each is one SELECT on the committed table; the value *)
(* it returns is kept in ret.                                               *)

\* cursor.fetchall() of a SELECT without ORDER BY: one tuple per matching row,
\* in an order SQLite is free to choose.
Orderings(R) ==
    {s \in [1..Cardinality(R) -> R] : \A i, j \in DOMAIN s : i # j => s[i] # s[j]}

\* ORDER BY timestamp DESC: rows with equal timestamps come in any order.
AscendingTimestamp(s) ==
    \A i, j \in DOMAIN s : i < j => s[i].timestamp <= s[j].timestamp

DescendingTimestamp(s) ==
    \A i, j \in DOMAIN s : i < j => s[i].timestamp >= s[j].timestamp

\* WHERE GuildID = ? AND timestamp < ? AND NOT whitelisted
InactiveIgnoringWhitelist(T, serverid, min_activity) ==
    {x \in T : x.GuildID = serverid /\ x.timestamp < min_activity}

Inactive(T, serverid, min_activity) ==
    {x \in T : x.GuildID = serverid /\ x.timestamp < min_activity
               /\ x.whitelisted = 0}

\* WHERE GuildID = ? AND whitelisted
Whitelisted(T, serverid) ==
    {x \in T : x.GuildID = serverid /\ x.whitelisted # 0}

Returns(fn, a, rows) ==
    /\ ret' = [fn |-> fn, args |-> a, rows |-> rows]
    /\ UNCHANGED <<db, pc, args, white, last, connvars>>

\* WHERE GuildID = ?
OfServer(T, serverid) == {x \in T : x.GuildID = serverid}

call_memberids_one_server(serverid) ==
    \E s \in Orderings(OfServer(db, serverid)) :
        Returns("call_memberids_one_server", <<serverid>>,
                [i \in DOMAIN s |-> <<s[i].UserID>>])

call_memberids_inactive_users(serverid, min_activity) ==
    \E s \in Orderings(Inactive(db, serverid, min_activity)) :
        Returns("call_memberids_inactive_users", <<serverid, min_activity>>,
                [i \in DOMAIN s |-> <<s[i].UserID>>])

call_whitelisted_ids(serverid) ==
    \E s \in Orderings(Whitelisted(db, serverid)) :
        Returns("call_whitelisted_ids", <<serverid>>,
                [i \in DOMAIN s |-> <<s[i].UserID>>])

\* SELECT DISTINCT GuildID FROM activity
call_all_server_ids_once ==
    \E s \in Orderings({x.GuildID : x \in db}) :
        Returns("call_all_server_ids_once", << >>, [i \in DOMAIN s |-> <<s[i]>>])

get_inactive_userids_and_timestamps(serverid, min_activity) ==
    \E s \in Orderings(Inactive(db, serverid, min_activity)) :
        /\ DescendingTimestamp(s)
        /\ Returns("get_inactive_userids_and_timestamps", <<serverid, min_activity>>,
                   [i \in DOMAIN s |-> <<s[i].UserID, s[i].timestamp>>])

\* The tables the queries are run on: every table with distinct keys and at
\* most MaxQueryRows rows (each is the outcome of that many make_needed_entries
\* rows on the empty table).
InitQuery ==
    /\ \E K \in SUBSET (Guilds \X QueryUsers) :
         /\ Cardinality(K) <= MaxQueryRows
         /\ \E f \in [K -> QueryTimes \X {0, 1}] :
              db = {Row(k[1], k[2], f[k][1], f[k][2]) : k \in K}
    /\ pc = [p \in Procs |-> "idle"]
    /\ args = [p \in Procs |-> NoArgs]
    /\ white = [p \in Procs |-> FALSE]
    /\ ret = NoRet
    /\ last = NoCall
    /\ NoConnections
    /\ created = TRUE

NextQuery ==
    \/ \E g \in Guilds : call_memberids_one_server(g)
    \/ \E g \in Guilds, m \in Thresholds : call_memberids_inactive_users(g, m)
    \/ \E g \in Guilds : call_whitelisted_ids(g)
    \/ call_all_server_ids_once
    \/ \E g \in Guilds, m \in Thresholds : get_inactive_userids_and_timestamps(g, m)

SpecQuery == InitQuery /\ [][NextQuery]_vars

---------------------------------------------------------------------------
(* The connection-level specification.  Every call has its own connection  *)
(* (_get_con), runs its statements in it, and ends with _commit_n_close,   *)
(* with connection.close() alone, or with the exception a statement or the *)
(* commit raised.  The table is not there before create_db has run.        *)

MaxConnUser == 1
MaxLeaks == 1

ConnUsers == 1..MaxConnUser
ConnKeys == Guilds \X ConnUsers
ConnEntries == Guilds \X ConnUsers \X Times
ConnMemberLists == Batches(ConnKeys)
ConnEntryLists == Batches(Guilds \X ConnUsers \X Times \X BOOLEAN)

\* CREATE TABLE IF NOT EXISTS activity (...): a table that exists is left alone.
RecreateTable(T, exists) == {}

CreateTable(T, exists) == IF exists THEN T ELSE {}

\* The data-changing statement of method fn, run on table T with the
\* parameters params (a list of one tuple for the methods that call
\* cursor.execute).
Statement(fn, T, params, w) ==
    CASE fn = "make_or_update_entry" ->
            InsertOrReplace(T, Row(params[1][1], params[1][2], params[1][3], Adapt(w)))
      [] fn = "make_needed_entry" ->
            InsertOrIgnore(T, Row(params[1][1], params[1][2], params[1][3],
                                  Adapt(FALSE)))
      [] fn = "delete_single_user" -> DeleteUser(T, params[1][1], params[1][2])
      [] fn = "delete_single_server" -> DeleteServer(T, params[1][1])
      [] fn = "remove_whitelist_status" ->
            UpdateWhitelist(T, params[1][1], params[1][2])
      [] fn = "delete_many_servers" -> ExecuteMany("DELETE server", T, params)
      [] fn = "make_needed_entries" -> ExecuteMany("INSERT OR IGNORE", T, params)
      [] fn = "delete_many_members" -> ExecuteMany("DELETE user", T, params)

\* The end of a method: _commit_n_close in make_or_update_entry,
\* delete_single_user and delete_single_server, and "if cursor.rowcount > 0"
\* in front of it in the other methods.
CommitsAlways(fn, rowcount) == TRUE

CommitsUnlessNegative(fn, rowcount) == rowcount >= 0

ShouldCommit(fn, rowcount) ==
    \/ fn \in {"make_or_update_entry", "delete_single_user", "delete_single_server"}
    \/ rowcount > 0

\* sqlite3 opens a transaction before the first data-changing statement of a
\* connection; from then on the connection holds the write lock of the
\* database file, which only one connection can hold.
LockFree(p) == ~stuck /\ \A q \in Procs \ {p} : ~conn[q].lock

\* What is committed after a statement or a commit has raised: the rows its
\* connection had changed stay in the connection's open transaction.
AutocommitAfterRaise(committed, working) == working

AfterRaise(committed, working) == committed

\* The table as p's connection sees it: its own uncommitted changes included.
Working(p) == IF conn[p].txn = << >> THEN db ELSE conn[p].txn[1]

\* The statements of fn have run in p's connection and are uncommitted; an
\* executemany over an empty list runs no statement and opens no transaction.
Executed(p, fn, params, w) ==
    /\ created
    /\ params = << >> \/ LockFree(p)
    /\ LET res == Statement(fn, db, params, w)
       IN  conn' = [conn EXCEPT ![p] =
                      [fn |-> fn, params |-> params, white |-> w,
                       stage |-> "executed",
                       txn |-> IF params = << >> THEN << >> ELSE <<res.tbl>>,
                       rowcount |-> res.rowcount, lock |-> params # << >>]]
    /\ UNCHANGED <<db, created, leaked, stuck, ended>>

\* A statement or the commit raises (sqlite3.OperationalError: no such table,
\* database is locked, disk I/O error): no method catches it and none closes
\* its connection on that path, so the call ends with its connection open;
\* holdsLock says whether the connection had started its transaction.
Raised(p, holdsLock, working) ==
    /\ leaked < MaxLeaks
    /\ conn' = [conn EXCEPT ![p] = Closed]
    /\ leaked' = leaked + 1
    /\ stuck' = (stuck \/ holdsLock)
    /\ ended' = "raise"
    /\ db' = AfterRaise(db, working)
    /\ UNCHANGED created

\* A statement raises after k of its parameter tuples have run.
StatementRaises(p, fn, params, k) ==
    /\ IF params = << >> THEN k = 0 /\ ~created ELSE k < Len(params)
    /\ k >= 1 => created /\ LockFree(p)
    /\ Raised(p, k >= 1,
              IF k = 0 THEN db ELSE Statement(fn, db, SubSeq(params, 1, k), FALSE).tbl)

\* create_db: the table is created when it is missing.  DDL runs outside a
\* transaction, the commit that follows has nothing to write.
create_db(p) ==
    /\ conn[p].stage = "closed"
    /\ db' = CreateTable(db, created)
    /\ created' = TRUE
    /\ ended' = "create"
    /\ UNCHANGED <<conn, leaked, stuck>>
    /\ UNCHANGED <<pc, args, white, ret, last>>

\* make_or_update_entry without white, lines 66-76: _get_con, the SELECT and
\* the fetch.
get_con_select(p, serverid, userid, timestamp) ==
    /\ conn[p].stage = "closed"
    /\ \/ /\ created
          /\ conn' = [conn EXCEPT ![p] =
                        [fn |-> "make_or_update_entry",
                         params |-> << <<serverid, userid, timestamp>> >>,
                         white |-> KeepWhite(FALSE,
                                      FetchWhitelisted(db, serverid, userid)),
                         stage |-> "selected", txn |-> << >>, rowcount |-> -1,
                         lock |-> FALSE]]
          /\ UNCHANGED <<db, created, leaked, stuck, ended>>
       \/ Raised(p, FALSE, db)
    /\ UNCHANGED <<pc, args, white, ret, last>>

\* make_or_update_entry, lines 77-83: the INSERT OR REPLACE after the SELECT.
execute_insert(p) ==
    /\ conn[p].stage = "selected"
    /\ \/ Executed(p, conn[p].fn, conn[p].params, conn[p].white)
       \/ Raised(p, FALSE, db)
    /\ UNCHANGED <<pc, args, white, ret, last>>

\* _get_con and cursor.execute or cursor.executemany of a method whose first
\* statement changes data.
get_con_execute(p, fn, params, w) ==
    /\ conn[p].stage = "closed"
    /\ \/ Executed(p, fn, params, w)
       \/ \E k \in 0..Len(params) : StatementRaises(p, fn, params, k)
    /\ UNCHANGED <<pc, args, white, ret, last>>

\* _commit_n_close, lines 44-52: the transaction's table becomes the
\* committed one, the lock is given back, the connection is closed.
commit_n_close_conn(p) ==
    /\ conn[p].stage = "executed"
    /\ ShouldCommit(conn[p].fn, conn[p].rowcount)
    /\ \/ /\ db' = commit_n_close(Result(Working(p), conn[p].rowcount))
          /\ conn' = [conn EXCEPT ![p] = Closed]
          /\ ended' = "commit"
          /\ UNCHANGED <<created, leaked, stuck>>
       \/ Raised(p, conn[p].lock, Working(p))
    /\ UNCHANGED <<pc, args, white, ret, last>>

\* connection.close() without a commit (lines 107, 209, 240, 259, 275): the
\* transaction is rolled back.
close_conn(p) ==
    /\ conn[p].stage = "executed"
    /\ ~ShouldCommit(conn[p].fn, conn[p].rowcount)
    /\ conn' = [conn EXCEPT ![p] = Closed]
    /\ ended' = "close"
    /\ UNCHANGED <<db, created, leaked, stuck>>
    /\ UNCHANGED <<pc, args, white, ret, last>>

ConnStep(p) ==
    \/ create_db(p)
    \/ \E e \in ConnEntries : get_con_select(p, e[1], e[2], e[3])
    \/ execute_insert(p)
    \/ \E e \in ConnEntries : get_con_execute(p, "make_or_update_entry", <<e>>, TRUE)
    \/ \E e \in ConnEntries : get_con_execute(p, "make_needed_entry", <<e>>, FALSE)
    \/ \E k \in ConnKeys : get_con_execute(p, "delete_single_user", <<k>>, FALSE)
    \/ \E g \in Guilds : get_con_execute(p, "delete_single_server", << <<g>> >>, FALSE)
    \/ \E k \in ConnKeys :
          get_con_execute(p, "remove_whitelist_status", <<k>>, FALSE)
    \/ \E l \in ServerIdLists : get_con_execute(p, "delete_many_servers", l, FALSE)
    \/ \E l \in ConnEntryLists : get_con_execute(p, "make_needed_entries", l, FALSE)
    \/ \E l \in ConnMemberLists : get_con_execute(p, "delete_many_members", l, FALSE)
    \/ commit_n_close_conn(p)
    \/ close_conn(p)

\* The state before create_db has run: no table, nobody inside the class.
InitConn ==
    /\ db = {}
    /\ created = FALSE
    /\ NoConnections
    /\ pc = [p \in Procs |-> "idle"]
    /\ args = [p \in Procs |-> NoArgs]
    /\ white = [p \in Procs |-> FALSE]
    /\ ret = NoRet
    /\ last = NoCall

NextConn == \E p \in Procs : ConnStep(p)

SpecConn == InitConn /\ [][NextConn]_vars

---------------------------------------------------------------------------
(* Properties *)

HasRow(T, g, u) == \E x \in T : x.GuildID = g /\ x.UserID = u
RowsOf(T, g, u) == {x \in T : x.GuildID = g /\ x.UserID = u}
Pending(p) == pc[p] = "insert"

\* C1: in every reachable state of the freely interleaved callers the table
\* holds at most one row per (GuildID, UserID).
C1_OneRowPerKey ==
    \A r \in db, s \in db : SameKey(r, s) => r = s

\* C1 witness: a caller is between the SELECT and the INSERT OR REPLACE of
\* make_or_update_entry while the row of its key has been written by another
\* call on the same key (it is whitelisted, which the caller did not read).
C1_Witness ==
    \E p \in Procs, q \in Procs :
        /\ p # q /\ Pending(p) /\ Pending(q)
        /\ args[p].serverid = args[q].serverid /\ args[p].userid = args[q].userid
        /\ ~white[p]
        /\ \E x \in RowsOf(db, args[p].serverid, args[p].userid) :
              x.whitelisted = 1 /\ x.timestamp # args[p].timestamp

\* C3 as claimed: with callers interleaved, the INSERT OR REPLACE of a
\* make_or_update_entry called with white=False never leaves a key whose stored
\* row was whitelisted with a row that is not.
C3_WriteKeepsWhitelisted ==
    [][\A p \in Procs :
          (/\ make_or_update_entry_write(p, FALSE)
           /\ \E x \in RowsOf(db, args[p].serverid, args[p].userid) :
                 x.whitelisted = 1)
          => \A y \in RowsOf(db', args[p].serverid, args[p].userid) :
                 y.whitelisted = 1]_vars

\* C2: calls running one after another.  The write of a make_or_update_entry
\* called with white=False on a key whose stored row is whitelisted leaves that
\* key with exactly one row, whitelisted and carrying the call's timestamp; a
\* call with white=True leaves its key whitelisted with the call's timestamp.
\* Together: (g, u, t1, True) then (g, u, t2, False) ends in (g, u, t2, 1).
C2_StickyWhitelist ==
    [][last'.fn \in {"make_or_update_entry", "make_or_update_entry_white"} =>
        /\ \A p \in Procs :
              (/\ make_or_update_entry_write(p, TRUE)
               /\ \E x \in RowsOf(db, args[p].serverid, args[p].userid) :
                     x.whitelisted = 1)
              => RowsOf(db', args[p].serverid, args[p].userid)
                    = {Row(args[p].serverid, args[p].userid, args[p].timestamp, 1)}
        /\ \A p \in Procs, g \in Guilds, u \in Users, t \in Times :
              make_or_update_entry_white(p, TRUE, g, u, t)
              => RowsOf(db', g, u) = {Row(g, u, t, 1)}]_vars

\* C2 witness: a make_or_update_entry with white=False has just returned and
\* the only row of the table, the one it wrote, is whitelisted.
C2_Witness ==
    /\ last.fn = "make_or_update_entry"
    /\ \E x \in db : db = {x} /\ x.whitelisted = 1 /\ x.timestamp = MaxTime

\* C8: calls running one after another.  The write of a make_or_update_entry
\* called with white=False on a key that is absent or not whitelisted leaves
\* that key with exactly one row, not whitelisted and carrying the call's
\* timestamp; a call with white=True on an absent key creates the row
\* whitelisted.
C8_PlainUpsert ==
    [][last'.fn \in {"make_or_update_entry", "make_or_update_entry_white"} =>
        /\ \A p \in Procs :
              (/\ make_or_update_entry_write(p, TRUE)
               /\ \A x \in RowsOf(db, args[p].serverid, args[p].userid) :
                     x.whitelisted = 0)
              => RowsOf(db', args[p].serverid, args[p].userid)
                    = {Row(args[p].serverid, args[p].userid, args[p].timestamp, 0)}
        /\ \A p \in Procs, g \in Guilds, u \in Users, t \in Times :
              (make_or_update_entry_white(p, TRUE, g, u, t) /\ ~HasRow(db, g, u))
              => RowsOf(db', g, u) = {Row(g, u, t, 1)}]_vars

\* C8 witness: a make_or_update_entry with white=False has just returned and
\* the only row of the table, the one it wrote, is not whitelisted and has the
\* later timestamp.
C8_Witness ==
    /\ last.fn = "make_or_update_entry"
    /\ \E x \in db : db = {x} /\ x.whitelisted = 0 /\ x.timestamp > 1

\* C4: make_needed_entry(g, u, t) adds the row (g, u, t, 0) when the key has no
\* row and leaves the table as it was when the key has one.
C4_EnsureEntry ==
    [][last'.fn = "make_needed_entry" =>
        \A p \in Procs, g \in Guilds, u \in Users, t \in Times :
            make_needed_entry(p, TRUE, g, u, t)
            => db' = IF HasRow(db, g, u) THEN db ELSE db \cup {Row(g, u, t, 0)}]_vars

\* C4 witness: make_needed_entry has just returned having inserted nothing
\* (its key had a row), and the table's only row is whitelisted.
C4_Witness ==
    /\ last = [fn |-> "make_needed_entry", rowcount |-> 0]
    /\ \E x \in db : db = {x} /\ x.whitelisted = 1

\* C5: remove_whitelist_status(g, u) sets whitelisted to 0 on the row of (g, u),
\* keeps its timestamp and every other row; with no row for (g, u) the table is
\* unchanged.
C5_Revoke ==
    [][last'.fn = "remove_whitelist_status" =>
        \A p \in Procs, g \in Guilds, u \in Users :
            remove_whitelist_status(p, TRUE, g, u)
            => db' = {IF x.GuildID = g /\ x.UserID = u
                      THEN Row(g, u, x.timestamp, 0) ELSE x : x \in db}]_vars

\* C5 witness: remove_whitelist_status has just returned having updated one
\* row; the table holds a row that is not whitelisted with the later timestamp
\* and another row that is still whitelisted.
C5_Witness ==
    /\ last = [fn |-> "remove_whitelist_status", rowcount |-> 1]
    /\ \E x \in db, y \in db :
          /\ db = {x, y}
          /\ x.whitelisted = 0 /\ x.timestamp = MaxTime
          /\ y.whitelisted = 1 /\ y.GuildID = x.GuildID

\* Running delete_single_server on each id of a list in turn.
RECURSIVE DeleteEachServer(_, _)
DeleteEachServer(T, server_ids) ==
    IF server_ids = << >>
    THEN T
    ELSE DeleteEachServer({x \in T : x.GuildID # Head(server_ids)[1]},
                          Tail(server_ids))

\* C9: delete_single_server(g) leaves no row of g (call_memberids_one_server(g)
\* can only return the empty list) and every row of the other guilds;
\* delete_many_servers(ids) leaves exactly the rows of the guilds not in ids,
\* which is what deleting the ids one by one leaves.
C9_DeleteGuilds ==
    [][last'.fn \in {"delete_single_server", "delete_many_servers"} =>
        /\ \A p \in Procs, g \in Guilds :
              delete_single_server(p, TRUE, g)
              => /\ db' = {x \in db : x.GuildID # g}
                 /\ Orderings(OfServer(db', g)) = {<< >>}
        /\ \A p \in Procs, l \in ServerIdLists :
              delete_many_servers(p, TRUE, l)
              => /\ db' = {x \in db : \A i \in DOMAIN l : x.GuildID # l[i][1]}
                 /\ db' = DeleteEachServer(db, l)]_vars

\* C9 witness: delete_many_servers has just returned having deleted the two
\* rows of one guild, and the two rows of the other guild are there.
C9_Witness ==
    /\ last = [fn |-> "delete_many_servers", rowcount |-> 2]
    /\ Cardinality(db) = 2

\* C10: delete_many_members(pairs) leaves exactly the rows whose
\* (GuildID, UserID) is not in pairs, each as it was.
C10_DeleteMembers ==
    [][last'.fn = "delete_many_members" =>
        \A p \in Procs, l \in MemberLists :
            delete_many_members(p, TRUE, l)
            => db' = {x \in db : \A i \in DOMAIN l : <<x.GuildID, x.UserID>> # l[i]}]_vars

\* C10 witness: delete_many_members has just returned having deleted two rows;
\* another user of a guild and the same user id in the other guild are left.
C10_Witness ==
    /\ last = [fn |-> "delete_many_members", rowcount |-> 2]
    /\ \E x \in db, y \in db :
          /\ db = {x, y} /\ x.GuildID # y.GuildID /\ x.UserID # y.UserID

\* C6: call_memberids_inactive_users(g, m) returns, each once, the UserIDs of
\* the rows of guild g with timestamp < m and whitelisted = 0: no whitelisted
\* user (none that call_whitelisted_ids(g) returns), no user with timestamp = m,
\* no user of another guild.
C6_InactiveIds ==
    ret.fn = "call_memberids_inactive_users" =>
        LET g == ret.args[1]
            m == ret.args[2]
            ids == {ret.rows[i][1] : i \in DOMAIN ret.rows}
        IN  /\ \A i \in DOMAIN ret.rows : Len(ret.rows[i]) = 1
            /\ Len(ret.rows) = Cardinality(ids)
            /\ \A u \in QueryUsers :
                  u \in ids <=> \E x \in db : /\ x.GuildID = g /\ x.UserID = u
                                              /\ x.timestamp < m
                                              /\ x.whitelisted = 0
            /\ ids \cap {x.UserID : x \in Whitelisted(db, g)} = {}

\* C6 witness: the method returned a user of a guild that also has a
\* whitelisted user below the threshold and a user exactly at the threshold.
C6_Witness ==
    /\ ret.fn = "call_memberids_inactive_users"
    /\ ret.rows # << >>
    /\ \E x \in db, y \in db :
          /\ x.GuildID = ret.args[1] /\ x.whitelisted = 1
          /\ x.timestamp < ret.args[2]
          /\ y.GuildID = ret.args[1] /\ y.whitelisted = 0
          /\ y.timestamp = ret.args[2]

\* C7: get_inactive_userids_and_timestamps(g, m) returns (UserID, timestamp)
\* pairs with non-increasing timestamps, each the stored timestamp of that
\* user in g, for exactly the users call_memberids_inactive_users(g, m) returns;
\* on (1,100), (2,50), (3,80), none whitelisted, with m = 200 it returns
\* [(1,100), (3,80), (2,50)].
C7_InactiveWithTimestamps ==
    ret.fn = "get_inactive_userids_and_timestamps" =>
        LET g == ret.args[1]
            m == ret.args[2]
            rows == ret.rows
        IN  /\ \A i, j \in DOMAIN rows : i < j => rows[i][2] >= rows[j][2]
            /\ \A i \in DOMAIN rows :
                  \E x \in db : /\ x.GuildID = g /\ x.UserID = rows[i][1]
                                /\ x.timestamp = rows[i][2]
            /\ {rows[i][1] : i \in DOMAIN rows}
                  = {x.UserID : x \in Inactive(db, g, m)}
            /\ Len(rows) = Cardinality(Inactive(db, g, m))
            /\ ({x \in db : x.GuildID = g}
                   = {Row(g, 1, 100, 0), Row(g, 2, 50, 0), Row(g, 3, 80, 0)}
                /\ m = 200)
               => rows = << <<1, 100>>, <<3, 80>>, <<2, 50>> >>

\* C7 witness: the method has returned on the table of the example.
C7_Witness ==
    /\ ret.fn = "get_inactive_userids_and_timestamps"
    /\ ret.args = <<1, 200>>
    /\ db = {Row(1, 1, 100, 0), Row(1, 2, 50, 0), Row(1, 3, 80, 0)}
    /\ ret.rows = << <<1, 100>>, <<3, 80>>, <<2, 50>> >>

\* C11: delete_single_user is idempotent. A call leaves no row with the key
\* and every other row as it was; a call for a key that is not stored (as any
\* second call in a row is) returns normally with rowcount 0 and leaves the
\* table unchanged, so two calls end in the same table as one.
C11_DeleteMemberIdempotent ==
    [][last'.fn = "delete_single_user" =>
        \A p \in Procs, g \in Guilds, u \in Users :
            delete_single_user(p, TRUE, g, u)
            => /\ db' = {x \in db : ~(x.GuildID = g /\ x.UserID = u)}
               /\ ~HasRow(db', g, u)
               /\ ~HasRow(db, g, u) => (db' = db /\ last'.rowcount = 0)]_vars

\* C11 witness: a delete_single_user call has returned having matched no row,
\* on a table that holds rows.
C11_Witness ==
    /\ last = [fn |-> "delete_single_user", rowcount |-> 0]
    /\ Cardinality(db) >= 2

\* C20: make_or_update_entry stores exactly the timestamp it is given. When
\* the call runs with no other call interleaved, the one row of its key has
\* the call's timestamp afterwards, whether white was passed or not and
\* whether the timestamp stored before was smaller or larger (the stored
\* timestamp can decrease).
C20_StoresGivenTimestamp ==
    [][last'.fn \in {"make_or_update_entry", "make_or_update_entry_white"} =>
        /\ \A p \in Procs :
              (Pending(p) /\ make_or_update_entry_write(p, TRUE))
              => \E x \in db' :
                    /\ RowsOf(db', args[p].serverid, args[p].userid) = {x}
                    /\ x.timestamp = args[p].timestamp
        /\ \A p \in Procs, g \in Guilds, u \in Users, t \in Times :
              make_or_update_entry_white(p, TRUE, g, u, t)
              => \E x \in db' : RowsOf(db', g, u) = {x} /\ x.timestamp = t]_vars

\* C20 witness: a make_or_update_entry call is about to write a timestamp
\* smaller than the one stored for its key.
C20_Witness ==
    \E p \in Procs :
        /\ Pending(p)
        /\ \E x \in RowsOf(db, args[p].serverid, args[p].userid) :
              x.timestamp > args[p].timestamp

\* C19: a make_or_update_entry called without white never sets whitelisted
\* on a stored row that does not have it, in particular not on a row that
\* remove_whitelist_status has cleared after the call read the flag: with the
\* callers freely interleaved, the write of a call whose SELECT saw
\* whitelisted = 1 leaves a row stored with whitelisted = 0 at 0.
C19_RevokeNotUndone ==
    [][\A p \in Procs :
          (/\ Pending(p)
           /\ white[p]
           /\ \E x \in RowsOf(db, args[p].serverid, args[p].userid) :
                 x.whitelisted = 0
           /\ make_or_update_entry_write(p, FALSE))
          => \A x \in RowsOf(db', args[p].serverid, args[p].userid) :
                x.whitelisted = 0]_vars

\* The connection-level claims.  Ends(p): this step ends p's call after its
\* statements have run.  Keyed(l, i): the key of the i-th tuple of list l.
Ends(p) == conn[p].stage = "executed" /\ conn'[p].stage = "closed"
FirstOfKey(l, i) ==
    \A j \in 1..(i - 1) : ~(l[j][1] = l[i][1] /\ l[j][2] = l[i][2])
EntryRow(e) == Row(e[1], e[2], e[3], IF e[4] THEN 1 ELSE 0)
RepeatsKey(l) == \E i \in DOMAIN l : ~FirstOfKey(l, i)

\* C12: a make_needed_entries call that returns keeps every stored row,
\* inserts for each entry whose key is not stored when the entry is reached
\* the row with the entry's own timestamp and whitelisted value, and inserts
\* nothing else; also when the list mixes stored and new keys.
C12_EnsureEntries ==
    [][\A p \in Procs :
          (conn[p].fn = "make_needed_entries" /\ Ends(p) /\ ended' # "raise")
          => LET l == conn[p].params
             IN  /\ db \subseteq db'
                 /\ \A i \in DOMAIN l :
                       (~HasRow(db, l[i][1], l[i][2]) /\ FirstOfKey(l, i))
                       => EntryRow(l[i]) \in db'
                 /\ \A x \in db' \ db : \E i \in DOMAIN l : x = EntryRow(l[i])
                 /\ \A x \in db', y \in db' : SameKey(x, y) => x = y]_vars

\* C12 witness: the executemany of a make_needed_entries call has run on a
\* list of one stored key (with another timestamp and whitelisted value than
\* stored) and one new key, whose entry is whitelisted.
C12_Witness ==
    \E p \in Procs :
        /\ conn[p].fn = "make_needed_entries"
        /\ conn[p].stage = "executed"
        /\ conn[p].rowcount = 1
        /\ \E i, j \in DOMAIN conn[p].params :
              /\ HasRow(db, conn[p].params[i][1], conn[p].params[i][2])
              /\ EntryRow(conn[p].params[i]) \notin db
              /\ ~HasRow(db, conn[p].params[j][1], conn[p].params[j][2])
              /\ conn[p].params[j][4]

\* C14 (as claimed): the executemany of make_needed_entries fails on a list
\* that holds two entries with the same (GuildID, UserID), so that no call
\* gets past it with such a list.
C14_RepeatedKeyRaises ==
    \A p \in Procs :
        ~(/\ conn[p].fn = "make_needed_entries"
          /\ conn[p].stage = "executed"
          /\ RepeatsKey(conn[p].params))

\* C14 (amended): the executemany of make_needed_entries completes on a list
\* that repeats a key.  Of the entries of one key the first is inserted when
\* the key is not stored, every later one is skipped without an error, and
\* rowcount counts the inserted rows.
C14_RepeatedKeyIgnored ==
    \A p \in Procs :
        (/\ conn[p].fn = "make_needed_entries"
         /\ conn[p].stage = "executed"
         /\ RepeatsKey(conn[p].params))
        => LET l == conn[p].params
               new == {EntryRow(l[i]) :
                          i \in {j \in DOMAIN l : /\ ~HasRow(db, l[j][1], l[j][2])
                                                  /\ FirstOfKey(l, j)}}
           IN  /\ Working(p) = db \cup new
               /\ conn[p].rowcount = Cardinality(new)

\* C14 witness: the executemany has run on two entries of one key that was
\* not stored, with different timestamps and whitelisted values, and has
\* inserted one row.
C14_Witness ==
    \E p \in Procs :
        /\ conn[p].fn = "make_needed_entries"
        /\ conn[p].stage = "executed"
        /\ conn[p].rowcount = 1
        /\ Len(conn[p].params) = 2
        /\ RepeatsKey(conn[p].params)
        /\ conn[p].params[1][3] # conn[p].params[2][3]
        /\ conn[p].params[1][4] # conn[p].params[2][4]
        /\ db # {}

\* C15: an empty list is a no-op for delete_many_servers, make_needed_entries
\* and delete_many_members: the executemany runs no statement (rowcount 0, no
\* transaction, no lock), and the call ends with connection.close() alone,
\* without an exception, the committed table unchanged.
C15_EmptyBatch ==
    [][\A p \in Procs :
          (/\ conn[p].fn \in {"delete_many_servers", "make_needed_entries",
                              "delete_many_members"}
           /\ conn[p].params = << >>
           /\ Ends(p))
          => /\ conn[p].rowcount = 0
             /\ ~conn[p].lock
             /\ Working(p) = db
             /\ ended' = "close"
             /\ db' = db
             /\ leaked' = leaked]_vars

\* C15 witness: the executemany of a call with an empty list has run on a
\* table that holds rows, while the other caller is inside a call as well.
C15_Witness ==
    \E p \in Procs, q \in Procs :
        /\ conn[p].stage = "executed"
        /\ conn[p].params = << >>
        /\ conn[q].stage = "executed"
        /\ conn[q].lock
        /\ db # {}

\* C16: create_db is idempotent.  Whenever it is called, also between the
\* statements of other calls, the table exists afterwards; when the table
\* existed already, every stored row, every open connection and every lock
\* is as before the call.
C16_CreateIdempotent ==
    [][\A p \in Procs :
          create_db(p)
          => /\ created'
             /\ created => /\ db' = db
                           /\ <<conn, created, leaked, stuck>>'
                                 = <<conn, created, leaked, stuck>>]_vars

\* C16 witness: create_db has just returned on a table that holds rows, while
\* another call has uncommitted changes.
C16_Witness ==
    /\ ended = "create"
    /\ db # {}
    /\ \E q \in Procs : conn[q].stage = "executed" /\ Working(q) # db

\* C17: make_needed_entry, make_needed_entries, remove_whitelist_status,
\* delete_many_servers and delete_many_members commit exactly when the
\* statement's rowcount is positive: with rowcount 0 the call ends with
\* connection.close() alone, without an exception and with the committed
\* table unchanged; with a positive rowcount it ends with the commit (or with
\* the exception the commit raised), never with the close alone.
C17_ConditionalCommit ==
    [][\A p \in Procs :
          (/\ conn[p].fn \in {"make_needed_entry", "make_needed_entries",
                              "remove_whitelist_status", "delete_many_servers",
                              "delete_many_members"}
           /\ Ends(p))
          => IF conn[p].rowcount > 0
             THEN /\ ended' \in {"commit", "raise"}
                  /\ ended' = "commit" => db' = Working(p)
             ELSE /\ ended' = "close"
                  /\ db' = db
                  /\ leaked' = leaked]_vars

\* C17 witness: remove_whitelist_status has matched no row; its connection
\* holds the write lock and is about to be closed without a commit, on a
\* table that holds rows.
C17_Witness ==
    \E p \in Procs :
        /\ conn[p].fn = "remove_whitelist_status"
        /\ conn[p].stage = "executed"
        /\ conn[p].rowcount = 0
        /\ conn[p].lock
        /\ db # {}

\* C13: every writing call is one atomic commit.  The committed table changes
\* only in the commit of a call, and then to the table with all statements
\* of that call applied; the other callers read the committed table, so none
\* sees part of a call's rows.  A call that ends with an exception leaves
\* the committed table as it was.
C13_AtomicCommit ==
    [][/\ db' # db
          => \E p \in Procs :
                /\ Ends(p)
                /\ ended' = "commit"
                /\ db' = Statement(conn[p].fn, db, conn[p].params,
                                   conn[p].white).tbl
       /\ leaked' > leaked => db' = db]_vars

\* C13 witness: a call has ended with an exception after its statement had
\* changed rows in its connection (which was never closed and still holds the
\* lock), and the committed table holds rows.
C13_Witness ==
    /\ ended = "raise"
    /\ stuck
    /\ db # {}
    /\ \A p \in Procs : conn[p].stage = "closed"

\* C18: connections are scoped to their call.  Whenever no caller is inside
\* the class, no connection is open and no transaction is pending.
C18_ConnectionsReleased ==
    (\A p \in Procs : conn[p].stage = "closed") => (leaked = 0 /\ ~stuck)

====
